---- MODULE Spec2Model ----
(***************************************************************************)
(* Contacts REST backend: the ownership-scoped contact queries of          *)
(* repository/contacts.py, the fixed-window rate limiter of                *)
(* services/rate_limiter.py, and the token / session logic of              *)
(* services/auth.py and routes/auth.py.                                    *)
(*                                                                         *)
(* Python values are represented as follows.  A str is a sequence of       *)
(* one-character strings.  An Optional value is None (the empty tuple) or  *)
(* Some(x) (the one-element tuple).  A date is a record [y, m, d].         *)
(***************************************************************************)
EXTENDS Integers, Sequences, FiniteSets, TLC

VARIABLES
    contacts,   \* the rows of table "contacts" (db/models.py Contact)
    next_id,    \* the next primary key the database hands out
    ret,        \* the last contact call: its caller, arguments and result
    created_by, \* history: the user whose create_contact call made each contact id
    redis,      \* the counter store: per identity, None or Some([val, exp])
    now,        \* the clock, in seconds
    rl_pc,      \* per request handler: where it is in limit_rate
    rl_local,   \* per request handler: its user_id and the current_count it read
    rl_ret,     \* the last limit_rate call that ended: its identity and outcome
    win_start,  \* history: per identity, when its current 60 s window began
    win_calls,  \* history: per identity, the sequential calls in that window
    rejected,   \* history: per identity, whether a call of it was ever rejected
    life_allowed, \* history: per identity, calls allowed since its counter appeared
    users,      \* table "users": per email, None or Some([password, confirmed, refresh_token])
    utc,        \* datetime.utcnow(), in minutes
    ticks,      \* how often the clock has advanced
    issued,     \* the tokens the server has signed that have not expired
    lapsed,     \* None, or one token the server signed that has expired
    aret,       \* the last auth call: its arguments and its outcome
    redeemed,   \* history: the emails a confirmed_email call has confirmed
    last_refresh, \* history: per email, the refresh token issued last
    rg_pc,      \* per request handler: where it is in register
    rg_local,   \* per request handler: the body of its register request and exist_user
    inserted,   \* history: per email, the rows INSERTed into table "users"
    rf_pc,      \* per request handler: where it is in refresh_token
    rf_local,   \* per request handler: its token, when it decoded it, the user it loaded
    refreshes   \* history: per refresh token, the new tokens handed out for it since
                \* it was signed

contactVars == <<contacts, next_id, ret, created_by>>

rateVars == <<redis, now, rl_pc, rl_local, rl_ret, win_start, win_calls, rejected,
              life_allowed>>

authVars == <<users, utc, ticks, issued, lapsed, aret, redeemed, last_refresh>>

regVars == <<rg_pc, rg_local, inserted>>

refVars == <<rf_pc, rf_local, refreshes>>

vars == <<contacts, next_id, ret, created_by,
          redis, now, rl_pc, rl_local, rl_ret, win_start, win_calls, rejected,
          life_allowed,
          users, utc, ticks, issued, lapsed, aret, redeemed, last_refresh,
          rg_pc, rg_local, inserted,
          rf_pc, rf_local, refreshes>>

None == <<>>
Some(x) == <<x>>

(***************************************************************************)
(* Bounds and input domains of the contact model.                          *)
(***************************************************************************)
\* how many contacts are ever created in one behaviour
MaxContacts == 2

\* ids of the users that call the contact endpoints (User.id)
UserIds == {1, 2}

\* contact ids a caller may name: every id handed out, plus one that never was
ContactIds == 1..(MaxContacts + 1)

D(y, m, d) == [y |-> y, m |-> m, d |-> d]

\* request bodies (schemas.ContactCreate) a caller may send
ContactInputs ==
    { [first_name |-> <<"A", "b">>, second_name |-> <<"c">>, email |-> <<"a", "@">>,
       phone |-> <<"1">>, birthdate |-> D(1990, 1, 29), additional_data |-> None],
      [first_name |-> <<"b">>, second_name |-> <<"A", "b">>, email |-> <<"b", "@">>,
       phone |-> <<"2">>, birthdate |-> D(1985, 2, 2), additional_data |-> Some(<<"c">>)],
      [first_name |-> <<"c", "_">>, second_name |-> <<"c">>, email |-> <<"c", "@">>,
       phone |-> <<"1">>, birthdate |-> D(2000, 1, 12), additional_data |-> None] }

(***************************************************************************)
(* Rows and the queries of repository/contacts.py.                         *)
(***************************************************************************)
\* the row of create_contact with additional_data not passed on
Row_DropsAdditional(id, uid, c) ==
    [id |-> id, user_id |-> uid,
     first_name |-> c.first_name, second_name |-> c.second_name, email |-> c.email,
     phone |-> c.phone, birthdate |-> c.birthdate, additional_data |-> None]

\* the row of create_contact without user_id=user.id (the column default applies)
Row_NoOwner(id, uid, c) ==
    [id |-> id, user_id |-> 0,
     first_name |-> c.first_name, second_name |-> c.second_name, email |-> c.email,
     phone |-> c.phone, birthdate |-> c.birthdate, additional_data |-> c.additional_data]

\* Contact(**contact.dict(), user_id=user.id), with the id the database assigns
Row(id, uid, c) ==
    [id |-> id, user_id |-> uid,
     first_name |-> c.first_name, second_name |-> c.second_name, email |-> c.email,
     phone |-> c.phone, birthdate |-> c.birthdate, additional_data |-> c.additional_data]

\* the ContactCreate fields of a row
Fields(r) ==
    [first_name |-> r.first_name, second_name |-> r.second_name, email |-> r.email,
     phone |-> r.phone, birthdate |-> r.birthdate, additional_data |-> r.additional_data]

\* the setattr loop of upgrade_contact with the Optional field skipped
SetAttrs_SkipsOptional(db_contact, c) ==
    [db_contact EXCEPT !.first_name = c.first_name, !.second_name = c.second_name,
                       !.email = c.email, !.phone = c.phone,
                       !.birthdate = c.birthdate]

\* for key, value in contact.dict().items(): setattr(db_contact, key, value)
SetAttrs(db_contact, c) ==
    [db_contact EXCEPT !.first_name = c.first_name, !.second_name = c.second_name,
                       !.email = c.email, !.phone = c.phone,
                       !.birthdate = c.birthdate,
                       !.additional_data = c.additional_data]

\* db.delete(db_contact) without the commit
DbDelete_NoCommit(db, db_contact) == db

\* db.delete(db_contact); db.commit()
DbDelete(db, db_contact) == db \ {db_contact}

\* .first() of a query that selects at most one row: None or the row
First(rows) == IF rows = {} THEN None ELSE Some(CHOOSE r \in rows : TRUE)

\* every order in which the database may return the rows of a query without ORDER BY
Orderings(rows) ==
    { s \in [1..Cardinality(rows) -> rows] : \A r \in rows : \E i \in DOMAIN s : s[i] = r }

\* .offset(skip).limit(limit) applied to a result sequence
OffsetLimit(s, skip, limit) ==
    [i \in 1..(IF Len(s) - skip < 0 THEN 0
               ELSE IF Len(s) - skip < limit THEN Len(s) - skip ELSE limit) |-> s[i + skip]]

Range(s) == { s[i] : i \in DOMAIN s }

\* get_contacts: filter(Contact.user_id == user.id)
GetContactsQuery(db, uid) == { r \in db : r.user_id = uid }

\* the same query with the owner condition left out
OwnedById_AnyOwner(db, cid, uid) == { r \in db : r.id = cid }

\* get_contact / upgrade_contact / delete_contact:
\* filter(and_(Contact.id == contact_id, Contact.user_id == user.id))
OwnedById(db, cid, uid) == { r \in db : r.id = cid /\ r.user_id = uid }

(***************************************************************************)
(* Column.ilike(pattern): the SQL LIKE match, letters compared without     *)
(* regard to case.  In the pattern "%" matches any run of characters and    *)
(* "_" matches any one character; every other character matches itself.   *)
(***************************************************************************)
Lower(ch) ==
    CASE ch = "A" -> "a"
      [] ch = "B" -> "b"
      [] ch = "C" -> "c"
      [] OTHER -> ch

RECURSIVE Like(_, _)
Like(p, s) ==
    IF p = <<>> THEN s = <<>>
    ELSE IF Head(p) = "%" THEN Like(Tail(p), s) \/ (s # <<>> /\ Like(p, Tail(s)))
    ELSE IF s = <<>> THEN FALSE
    ELSE IF Head(p) = "_" THEN Like(Tail(p), Tail(s))
    ELSE Lower(Head(p)) = Lower(Head(s)) /\ Like(Tail(p), Tail(s))

\* Contact.<column>.ilike(f"%{value}%")
ILikeContains(column, value) == Like(<<"%">> \o value \o <<"%">>, column)

\* Python truth of an Optional[str] argument: None and "" are both false
Truthy(o) == o # None /\ o[1] # <<>>

\* search_contacts: the owner filter, then one ilike filter per truthy argument
SearchQuery(db, uid, first_name, second_name, email) ==
    { r \in db :
        /\ r.user_id = uid
        /\ (Truthy(first_name) => ILikeContains(r.first_name, first_name[1]))
        /\ (Truthy(second_name) => ILikeContains(r.second_name, second_name[1]))
        /\ (Truthy(email) => ILikeContains(r.email, email[1])) }

(***************************************************************************)
(* datetime.date arithmetic (proleptic Gregorian calendar).                *)
(***************************************************************************)
IsLeap(y) == (y % 4 = 0 /\ y % 100 # 0) \/ y % 400 = 0

DaysInMonth(y, m) ==
    IF m = 2 THEN (IF IsLeap(y) THEN 29 ELSE 28)
    ELSE IF m \in {4, 6, 9, 11} THEN 30 ELSE 31

\* the day after a date
NextDay(t) ==
    IF t.d < DaysInMonth(t.y, t.m) THEN D(t.y, t.m, t.d + 1)
    ELSE IF t.m < 12 THEN D(t.y, t.m + 1, 1)
    ELSE D(t.y + 1, 1, 1)

\* today + timedelta(days=n)
RECURSIVE PlusDays(_, _)
PlusDays(t, n) == IF n = 0 THEN t ELSE PlusDays(NextDay(t), n - 1)

\* timedelta(days=7) of get_upcoming_birthdays
BirthdayWindow == 7

\* get_upcoming_birthdays: the first query, and the second one that is added
\* when today + 7 days lies in another month
BirthdaysFirstQuery(db, uid, today, later) ==
    { r \in db :
        /\ r.user_id = uid
        /\ r.birthdate.m = today.m
        /\ r.birthdate.d >= today.d
        /\ r.birthdate.d <= later.d }

BirthdaysSecondQuery(db, uid, today, later) ==
    { r \in db :
        /\ r.birthdate.m = later.m
        /\ r.birthdate.d <= later.d }

UpcomingBirthdays(db, uid, today) ==
    LET seven_days_later == PlusDays(today, BirthdayWindow)
    IN  BirthdaysFirstQuery(db, uid, today, seven_days_later)
        \cup (IF today.m # seven_days_later.m
              THEN BirthdaysSecondQuery(db, uid, today, seven_days_later)
              ELSE {})

(***************************************************************************)
(* Input domains of the read calls.                                        *)
(***************************************************************************)
\* (first_name, second_name, email) arguments of /contacts/search
SearchArgs ==
    { <<None, None, None>>,
      <<Some(<<>>), None, None>>,
      <<Some(<<"a">>), None, None>>,
      <<Some(<<"a", "B">>), None, None>>,
      <<None, Some(<<"C">>), None>>,
      <<Some(<<"b">>), Some(<<"c">>), None>>,
      <<None, None, Some(<<"@">>)>>,
      <<Some(<<"b">>), Some(<<"b">>), Some(<<"B">>)>>,
      <<Some(<<"_">>), None, None>>,
      <<None, None, Some(<<"%", "a">>)>> }

NoSearch == <<None, None, None>>

\* values date.today() may have when /contacts/birthday_next_7_days is called
Todays == { D(2024, 1, 28), D(2024, 1, 10), D(2023, 12, 28), D(2023, 2, 25) }

NoDate == D(0, 0, 0)

\* skip and limit arguments of GET /contacts/ (limit defaults to 100)
Skips == {0, 1, 2}
Limits == {1, 2, 100}

(***************************************************************************)
(* State machine of the contact endpoints.  Every call records in ret who  *)
(* called, with what, and what the repository function returned:           *)
(* one is an Optional[Contact], seq a List[Contact] in result order, rows  *)
(* the set of rows of a list result.                                       *)
(***************************************************************************)
InitContacts ==
    /\ contacts = {}
    /\ next_id = 1
    /\ created_by = [i \in {} |-> 0]
    /\ ret = [op |-> "none", user |-> 0, cid |-> 0, body |-> None, one |-> None,
              seq |-> <<>>, rows |-> {}, filt |-> NoSearch, today |-> NoDate,
              skip |-> 0, limit |-> 0]

\* the record of a call that returns Optional[Contact]
RetOne(op, uid, cid, body, o) ==
    [op |-> op, user |-> uid, cid |-> cid, body |-> body, one |-> o,
     seq |-> <<>>, rows |-> {}, filt |-> NoSearch, today |-> NoDate,
     skip |-> 0, limit |-> 0]

\* the record of a call that returns List[Contact]
RetList(op, uid, s, rows, filt, today, skip, limit) ==
    [op |-> op, user |-> uid, cid |-> 0, body |-> None, one |-> None,
     seq |-> s, rows |-> rows, filt |-> filt, today |-> today,
     skip |-> skip, limit |-> limit]

\* create_contact(db, contact, user)
create_contact(uid, c) ==
    /\ next_id <= MaxContacts
    /\ contacts' = contacts \cup {Row(next_id, uid, c)}
    /\ next_id' = next_id + 1
    /\ created_by' = (next_id :> uid) @@ created_by
    /\ UNCHANGED <<rateVars, authVars, regVars, refVars>>
    /\ ret' = RetOne("create_contact", uid, next_id, Some(c), Some(Row(next_id, uid, c)))

\* get_contact(db, contact_id, user)
get_contact(uid, cid) ==
    /\ ret' = RetOne("get_contact", uid, cid, None, First(OwnedById(contacts, cid, uid)))
    /\ UNCHANGED <<contacts, next_id, created_by>>
    /\ UNCHANGED <<rateVars, authVars, regVars, refVars>>

\* get_contacts(db, user, skip, limit)
get_contacts(uid, skip, limit) ==
    /\ \E s \in Orderings(GetContactsQuery(contacts, uid)) :
          LET page == OffsetLimit(s, skip, limit)
          IN  ret' = RetList("get_contacts", uid, page, Range(page), NoSearch, NoDate,
                             skip, limit)
    /\ UNCHANGED <<contacts, next_id, created_by>>
    /\ UNCHANGED <<rateVars, authVars, regVars, refVars>>

\* upgrade_contact(db, user, contact_id, contact)
upgrade_contact(uid, cid, c) ==
    LET db_contact == First(OwnedById(contacts, cid, uid))
    IN  /\ IF db_contact # None
           THEN /\ contacts' = (contacts \ {db_contact[1]})
                                   \cup {SetAttrs(db_contact[1], c)}
                /\ ret' = RetOne("upgrade_contact", uid, cid, Some(c),
                                 Some(SetAttrs(db_contact[1], c)))
           ELSE /\ contacts' = contacts
                /\ ret' = RetOne("upgrade_contact", uid, cid, Some(c), None)
        /\ UNCHANGED <<next_id, created_by>>
        /\ UNCHANGED <<rateVars, authVars, regVars, refVars>>

\* delete_contact(db, user, contact_id)
delete_contact(uid, cid) ==
    LET db_contact == First(OwnedById(contacts, cid, uid))
    IN  /\ IF db_contact # None
           THEN contacts' = DbDelete(contacts, db_contact[1])
           ELSE contacts' = contacts
        /\ ret' = RetOne("delete_contact", uid, cid, None, db_contact)
        /\ UNCHANGED <<next_id, created_by>>
        /\ UNCHANGED <<rateVars, authVars, regVars, refVars>>

\* search_contacts(db, user, first_name, second_name, email)
search_contacts(uid, f) ==
    /\ ret' = RetList("search_contacts", uid, <<>>,
                      SearchQuery(contacts, uid, f[1], f[2], f[3]), f, NoDate, 0, 0)
    /\ UNCHANGED <<contacts, next_id, created_by>>
    /\ UNCHANGED <<rateVars, authVars, regVars, refVars>>

\* get_upcoming_birthdays(db, user), called on the day today
get_upcoming_birthdays(uid, today) ==
    /\ ret' = RetList("get_upcoming_birthdays", uid, <<>>,
                      UpcomingBirthdays(contacts, uid, today), NoSearch, today, 0, 0)
    /\ UNCHANGED <<contacts, next_id, created_by>>
    /\ UNCHANGED <<rateVars, authVars, regVars, refVars>>

(***************************************************************************)
(* The rate limiter of services/rate_limiter.py over the Redis counter     *)
(* store.  A key that was SET with ex=TIME_FRAME at time t is gone from    *)
(* time t + TIME_FRAME on; a key made by INCR has no expiry.               *)
(***************************************************************************)
RATE_LIMIT == 5
TIME_FRAME == 60

\* seconds the clock advances in one step, and the time at which it stops
TickStep == 20
MaxTime == 140

\* identities (user ids) that are rate limited: key "rate_limit:<user_id>"
RateIds == {1, 2}

\* request handlers that run limit_rate at the same time, and the identity
\* their requests carry
Handlers == {"h1", "h2"}
SharedIds == {1}

\* redis_client.get(key): None, or the value stored
RedisGet(r, key) == IF r[key] = None THEN None ELSE Some(r[key][1].val)

\* redis_client.set(key, value, ex=seconds)
RedisSetEx(r, key, value, seconds, t) ==
    [r EXCEPT ![key] = Some([val |-> value, exp |-> Some(t + seconds)])]

\* redis_client.incr(key): a missing key counts as 0 and gets no expiry;
\* an existing key keeps the expiry it has
RedisIncr(r, key) ==
    IF r[key] = None
    THEN [r EXCEPT ![key] = Some([val |-> 1, exp |-> None])]
    ELSE [r EXCEPT ![key] = Some([val |-> r[key][1].val + 1, exp |-> r[key][1].exp])]

\* the keys whose expiry time has come at time t are removed
RedisExpire(r, t) ==
    [key \in DOMAIN r |->
        IF r[key] # None /\ r[key][1].exp # None /\ r[key][1].exp[1] <= t
        THEN None ELSE r[key]]

\* the branch limit_rate takes, with <= in place of <
Branch_OffByOne(current_count) ==
    IF current_count = None THEN "set"
    ELSE IF current_count[1] <= RATE_LIMIT THEN "incr"
    ELSE "raise"

\* the branch limit_rate takes on the current_count it read
Branch(current_count) ==
    IF current_count = None THEN "set"
    ELSE IF current_count[1] < RATE_LIMIT THEN "incr"
    ELSE "raise"

\* the store after limit_rate acted on the current_count it read
AfterBranch(r, key, current_count, t) ==
    CASE Branch(current_count) = "set" -> RedisSetEx(r, key, 1, TIME_FRAME, t)
      [] Branch(current_count) = "incr" -> RedisIncr(r, key)
      [] OTHER -> r

InitRate ==
    /\ redis = [u \in RateIds |-> None]
    /\ now = 0
    /\ rl_pc = [h \in Handlers |-> "idle"]
    /\ rl_local = [h \in Handlers |-> [user_id |-> 0, current_count |-> None]]
    /\ rl_ret = [user_id |-> 0, allowed |-> TRUE]
    /\ win_start = [u \in RateIds |-> None]
    /\ win_calls = [u \in RateIds |-> 0]
    /\ rejected = [u \in RateIds |-> FALSE]
    /\ life_allowed = [u \in RateIds |-> 0]

\* whether a call of identity u at time t is the first of a new 60 s window
OpensWindow(u, t) == win_start[u] = None \/ t >= win_start[u][1] + TIME_FRAME

\* the outcome of a limit_rate call; life_allowed stops counting at
\* RATE_LIMIT + 1 ("more than RATE_LIMIT")
EndCall(u, current_count) ==
    LET allowed == Branch(current_count) # "raise"
    IN  /\ rl_ret' = [user_id |-> u, allowed |-> allowed]
        /\ rejected' = [rejected EXCEPT ![u] = @ \/ ~allowed]
        /\ life_allowed' = [life_allowed EXCEPT ![u] =
                               IF allowed /\ @ <= RATE_LIMIT THEN @ + 1 ELSE @]

\* the call is counted in the 60 s window it falls in; win_calls stops counting
\* at RATE_LIMIT + 1
CountInWindow(u) ==
    /\ win_start' = IF OpensWindow(u, now) THEN [win_start EXCEPT ![u] = Some(now)]
                    ELSE win_start
    /\ win_calls' = [win_calls EXCEPT ![u] =
                        IF OpensWindow(u, now) THEN 1
                        ELSE IF @ > RATE_LIMIT THEN @ ELSE @ + 1]

\* limit_rate(user_id), run from start to end with no other request in between
limit_rate(u) ==
    LET current_count == RedisGet(redis, u)
    IN  /\ redis' = AfterBranch(redis, u, current_count, now)
        /\ EndCall(u, current_count)
        /\ CountInWindow(u)
        /\ UNCHANGED <<now, rl_pc, rl_local>>
        /\ UNCHANGED <<contactVars, authVars, regVars, refVars>>

\* limit_rate(user_id), first half: current_count = redis_client.get(key)
limit_rate_get(h, u) ==
    /\ rl_pc[h] = "idle"
    /\ rl_pc' = [rl_pc EXCEPT ![h] = "got"]
    /\ rl_local' = [rl_local EXCEPT ![h] =
                       [user_id |-> u, current_count |-> RedisGet(redis, u)]]
    /\ UNCHANGED <<redis, now, rl_ret, win_start, win_calls, rejected, life_allowed>>
    /\ UNCHANGED <<contactVars, authVars, regVars, refVars>>

\* limit_rate(user_id), second half: set, incr or raise on what was read
limit_rate_act(h) ==
    /\ rl_pc[h] = "got"
    /\ redis' = AfterBranch(redis, rl_local[h].user_id, rl_local[h].current_count, now)
    /\ EndCall(rl_local[h].user_id, rl_local[h].current_count)
    /\ rl_pc' = [rl_pc EXCEPT ![h] = "idle"]
    /\ rl_local' = [rl_local EXCEPT ![h] = [user_id |-> 0, current_count |-> None]]
    /\ UNCHANGED <<now, win_start, win_calls>>
    /\ UNCHANGED <<contactVars, authVars, regVars, refVars>>

\* time passes; Redis drops the keys that expired
Tick ==
    /\ now + TickStep <= MaxTime
    /\ now' = now + TickStep
    /\ redis' = RedisExpire(redis, now + TickStep)
    /\ life_allowed' = [u \in RateIds |->
                           IF RedisExpire(redis, now + TickStep)[u] = None
                           THEN 0 ELSE life_allowed[u]]
    /\ UNCHANGED <<rl_pc, rl_local, rl_ret, win_start, win_calls, rejected>>
    /\ UNCHANGED <<contactVars, authVars, regVars, refVars>>


(***************************************************************************)
(* Tokens (services/auth.py).  A token is the record of what jwt.encode    *)
(* signed: the claims sub, scope, iat and exp (an absent claim is None),   *)
(* and whether its signature is one made with SECRET_KEY.  Equal claims    *)
(* give equal tokens.  Times are in minutes.                               *)
(***************************************************************************)
\* timedelta(minutes=30), timedelta(days=7), timedelta(days=7)
AccessTTL == 30
RefreshTTL == 7 * 24 * 60
EmailTTL == 7 * 24 * 60

\* how often the clock advances in one behaviour, and by how much
MaxTicks == 1
TickSteps == {AccessTTL + 1, RefreshTTL + 1}

\* email addresses that requests carry, the password users register with,
\* and the passwords login requests carry
Emails == {"a@x", "b@x"}
RegisterPasswords == {"p"}
Passwords == {"p", "q"}

Token(sub, scope, iat, exp, sig) ==
    [sub |-> sub, scope |-> scope, iat |-> iat, exp |-> exp, sig |-> sig]

\* create_access_token(data={'sub': email}) at time t
create_access_token(email, t) ==
    Token(Some(email), Some("access_token"), None, t + AccessTTL, TRUE)

\* create_refresh_token(data={'sub': email}) at time t
create_refresh_token(email, t) ==
    Token(Some(email), Some("refresh_token"), None, t + RefreshTTL, TRUE)

\* create_email_token({"sub": email}) at time t
create_email_token(email, t) ==
    Token(Some(email), None, Some(t), t + EmailTTL, TRUE)

\* jwt.decode(token, SECRET_KEY, algorithms=[ALGORITHM]) at time t returns the
\* payload; it raises JWTError on a bad signature and when exp < now
JwtDecodes(token, t) == token.sig /\ token.exp >= t

\* what a call ends in: a value returned, an HTTPException, or an exception
\* no handler catches (the framework answers 500)
Returns(status, detail, email) == [status |-> status, detail |-> detail, email |-> email]
Raises(status, detail) == [status |-> status, detail |-> detail, email |-> None]
Uncaught(exception) == [status |-> 500, detail |-> exception, email |-> None]

\* decode_refresh_token with "except Exception" in place of "except JWTError"
decode_refresh_token_CatchAll(token, t) ==
    IF ~JwtDecodes(token, t) \/ token.scope = None \/ token.sub = None
       \/ token.scope # Some("refresh_token")
    THEN Raises(401, "Could not validate credentials")
    ELSE Returns(200, "", token.sub)

\* Auth.decode_refresh_token(refresh_token) at time t
decode_refresh_token(token, t) ==
    IF ~JwtDecodes(token, t) THEN Raises(401, "Could not validate credentials")
    ELSE IF token.scope = None THEN Uncaught("KeyError: 'scope'")
    ELSE IF token.scope = Some("refresh_token")
         THEN (IF token.sub = None THEN Uncaught("KeyError: 'sub'")
               ELSE Returns(200, "", token.sub))
    ELSE Raises(401, "Invalid scope for token")

\* get_email_from_token reading the claims without verifying the token
get_email_from_token_NoVerify(token, t) == Returns(200, "", token.sub)

\* Auth.get_email_from_token(token) at time t
get_email_from_token(token, t) ==
    IF ~JwtDecodes(token, t) THEN Raises(422, "Invalid token for email verification")
    ELSE Returns(200, "", token.sub)

\* repository.users.get_user_by_email(email, db): None or the user row
get_user_by_email(db, email) == IF email \in DOMAIN db THEN db[email] ELSE None

\* Auth.get_current_user(token, db) at time t
get_current_user_of(token, t, db) ==
    IF ~JwtDecodes(token, t) THEN Raises(401, "Could not validate credentials")
    ELSE IF token.scope = None THEN Uncaught("KeyError: 'scope'")
    ELSE IF token.scope = Some("access_token")
         THEN (IF token.sub = None THEN Uncaught("KeyError: 'sub'")
               ELSE IF get_user_by_email(db, token.sub[1]) = None
                    THEN Raises(401, "Could not validate credentials")
                    ELSE Returns(200, "", token.sub))
    ELSE Raises(401, "Could not validate credentials")

\* Auth.hash_password and Auth.verify_password (bcrypt, the salt left out)
hash_password(password) == <<"bcrypt", password>>
verify_password(plain_password, hashed_password) ==
    hashed_password = hash_password(plain_password)

\* User(**user.dict(), avatar=avatar): refresh_token None, confirmed False
NewUser(password) ==
    [password |-> password, confirmed |-> FALSE, refresh_token |-> None]

\* repository.users.update_token(user, token, db)
update_token(db, email, token) ==
    [db EXCEPT ![email] = Some([db[email][1] EXCEPT !.refresh_token = token])]

\* repository.users.confirmed_email(email, db)
set_confirmed(db, email) ==
    [db EXCEPT ![email] = Some([db[email][1] EXCEPT !.confirmed = TRUE])]

\* tokens that carry a signature not made with SECRET_KEY
Forged ==
    { Token(Some("a@x"), Some("access_token"), None, utc + AccessTTL, FALSE),
      Token(Some("b@x"), Some("refresh_token"), None, utc + RefreshTTL, FALSE) }

\* the tokens a client can send
Presentable == issued \cup Forged \cup (IF lapsed = None THEN {} ELSE {lapsed[1]})

NoTokens == [access_token |-> None, refresh_token |-> None]

InitAuth ==
    /\ users = [e \in Emails |-> None]
    /\ utc = 0
    /\ ticks = 0
    /\ issued = {}
    /\ lapsed = None
    /\ aret = [op |-> "none", email |-> None, password |-> None, token |-> None,
               status |-> 0, detail |-> "", out |-> NoTokens]
    /\ redeemed = {}
    /\ last_refresh = [e \in Emails |-> None]

\* the record of an auth call
ARet(op, email, password, token, status, detail, out) ==
    [op |-> op, email |-> email, password |-> password, token |-> token,
     status |-> status, detail |-> detail, out |-> out]

\* POST /register; the background task send_email signs an email token
register(email, password) ==
    /\ IF get_user_by_email(users, email) # None
       THEN /\ aret' = ARet("register", Some(email), Some(password), None,
                            409, "Email already registered", NoTokens)
            /\ UNCHANGED <<users, issued, inserted>>
       ELSE /\ users' = [users EXCEPT ![email] = Some(NewUser(hash_password(password)))]
            /\ inserted' = [inserted EXCEPT ![email] = @ + 1]
            /\ issued' = issued \cup {create_email_token(email, utc)}
            /\ aret' = ARet("register", Some(email), Some(password), None,
                            201, "", NoTokens)
    /\ UNCHANGED <<utc, ticks, lapsed, redeemed, last_refresh>>
    /\ UNCHANGED <<contactVars, rateVars, rg_pc, rg_local, refVars>>

\* the unique constraint on users.email: the INSERT of a row whose email is
\* already in the table fails at commit
UniqueViolation(db, email) == get_user_by_email(db, email) # None

NoRegister == [email |-> None, password |-> None, exist_user |-> None]

InitRegister ==
    /\ rg_pc = [h \in Handlers |-> "idle"]
    /\ rg_local = [h \in Handlers |-> NoRegister]
    /\ inserted = [e \in Emails |-> 0]

\* POST /register, first half: exist_user = get_user_by_email(user.email, db)
register_read(h, email, password) ==
    /\ rg_pc[h] = "idle"
    /\ rg_pc' = [rg_pc EXCEPT ![h] = "read"]
    /\ rg_local' = [rg_local EXCEPT ![h] =
                       [email |-> Some(email), password |-> Some(password),
                        exist_user |-> get_user_by_email(users, email)]]
    /\ UNCHANGED <<authVars, inserted>>
    /\ UNCHANGED <<contactVars, rateVars, refVars>>

\* POST /register, second half: raise 409 if exist_user, else hash the password
\* and create_user; the commit of create_user raises IntegrityError, which no
\* handler catches, when the email has been inserted since the first half
register_write(h) ==
    /\ rg_pc[h] = "read"
    /\ LET email == rg_local[h].email[1]
           password == rg_local[h].password[1]
       IN  IF rg_local[h].exist_user # None
           THEN /\ aret' = ARet("register", Some(email), Some(password), None,
                                409, "Email already registered", NoTokens)
                /\ UNCHANGED <<users, issued, inserted>>
           ELSE IF UniqueViolation(users, email)
           THEN /\ aret' = ARet("register", Some(email), Some(password), None,
                                Uncaught("IntegrityError").status,
                                Uncaught("IntegrityError").detail, NoTokens)
                /\ UNCHANGED <<users, issued, inserted>>
           ELSE /\ users' = [users EXCEPT ![email] =
                                 Some(NewUser(hash_password(password)))]
                /\ inserted' = [inserted EXCEPT ![email] = @ + 1]
                /\ issued' = issued \cup {create_email_token(email, utc)}
                /\ aret' = ARet("register", Some(email), Some(password), None,
                                201, "", NoTokens)
    /\ rg_pc' = [rg_pc EXCEPT ![h] = "idle"]
    /\ rg_local' = [rg_local EXCEPT ![h] = NoRegister]
    /\ UNCHANGED <<utc, ticks, lapsed, redeemed, last_refresh>>
    /\ UNCHANGED <<contactVars, rateVars, refVars>>

\* login with the "Email not confirmed" check left out
LoginCheck_NoConfirm(user, password) ==
    IF user = None THEN Raises(401, "Invalid email")
    ELSE IF ~verify_password(password, user[1].password)
         THEN Raises(401, "Invalid password")
    ELSE Returns(201, "", None)

\* history: a refresh token signed now has had no new tokens handed out for it;
\* a refresh token answered with 201 has had one more
Signed(h, token) == (token :> 0) @@ h
Answered(h, token) == (token :> (IF token \in DOMAIN h THEN h[token] ELSE 0) + 1) @@ h

\* POST /login: the checks before any token is made
LoginCheck(user, password) ==
    IF user = None THEN Raises(401, "Invalid email")
    ELSE IF ~user[1].confirmed THEN Raises(401, "Email not confirmed")
    ELSE IF ~verify_password(password, user[1].password)
         THEN Raises(401, "Invalid password")
    ELSE Returns(201, "", None)

\* POST /login
login(email, password) ==
    LET check == LoginCheck(get_user_by_email(users, email), password)
        access_token == create_access_token(email, utc)
        refresh_token == create_refresh_token(email, utc)
    IN  /\ IF check.status = 201
           THEN /\ users' = update_token(users, email, Some(refresh_token))
                /\ issued' = issued \cup {access_token, refresh_token}
                /\ last_refresh' = [last_refresh EXCEPT ![email] = Some(refresh_token)]
                /\ refreshes' = Signed(refreshes, refresh_token)
                /\ aret' = ARet("login", Some(email), Some(password), None, 201, "",
                                [access_token |-> Some(access_token),
                                 refresh_token |-> Some(refresh_token)])
           ELSE /\ aret' = ARet("login", Some(email), Some(password), None,
                                check.status, check.detail, NoTokens)
                /\ UNCHANGED <<users, issued, last_refresh, refreshes>>
        /\ UNCHANGED <<utc, ticks, lapsed, redeemed>>
        /\ UNCHANGED <<contactVars, rateVars, regVars, rf_pc, rf_local>>

\* POST /request_email
request_email(email) ==
    LET user == get_user_by_email(users, email)
    IN  /\ IF user = None
           THEN /\ aret' = ARet("request_email", Some(email), None, None, 500,
                                "AttributeError: 'NoneType' object has no attribute 'confirmed'",
                                NoTokens)
                /\ UNCHANGED issued
           ELSE IF user[1].confirmed
           THEN /\ aret' = ARet("request_email", Some(email), None, None, 200,
                                "Your email is already confirmed", NoTokens)
                /\ UNCHANGED issued
           ELSE /\ aret' = ARet("request_email", Some(email), None, None, 200,
                                "Check your email for confirmation.", NoTokens)
                /\ issued' = issued \cup {create_email_token(email, utc)}
        /\ UNCHANGED <<users, utc, ticks, lapsed, redeemed, last_refresh>>
        /\ UNCHANGED <<contactVars, rateVars, regVars, refVars>>

\* GET /refresh_token with the comparison against the stored token left out
RefreshCheck_NoCompare(token, t, db) ==
    LET decoded == decode_refresh_token(token, t)
    IN  IF decoded.status # 200 THEN decoded
        ELSE IF get_user_by_email(db, decoded.email[1]) = None
             THEN Uncaught("AttributeError: 'NoneType' object has no attribute 'refresh_token'")
        ELSE Returns(201, "", decoded.email)

\* GET /refresh_token: the checks before any token is made
RefreshCheck(token, t, db) ==
    LET decoded == decode_refresh_token(token, t)
    IN  IF decoded.status # 200 THEN decoded
        ELSE IF get_user_by_email(db, decoded.email[1]) = None
             THEN Uncaught("AttributeError: 'NoneType' object has no attribute 'refresh_token'")
        ELSE IF get_user_by_email(db, decoded.email[1])[1].refresh_token # Some(token)
             THEN [status |-> 401, detail |-> "Invalid refresh token", email |-> decoded.email]
        ELSE Returns(201, "", decoded.email)

\* the refusal of /refresh_token with update_token(user, None, db) left out
AfterRefusal_KeepsToken(db, check) == db

\* table "users" after /refresh_token refused a token: on a mismatch with the
\* stored token, update_token(user, None, db)
AfterRefusal(db, check) ==
    IF check.detail = "Invalid refresh token"
    THEN update_token(db, check.email[1], None)
    ELSE db

\* GET /refresh_token
refresh_token(token) ==
    LET check == RefreshCheck(token, utc, users)
    IN  /\ IF check.status = 201
           THEN LET email == check.email[1]
                    access_token == create_access_token(email, utc)
                    new_refresh_token == create_refresh_token(email, utc)
                IN  /\ users' = update_token(users, email, Some(new_refresh_token))
                    /\ issued' = issued \cup {access_token, new_refresh_token}
                    /\ last_refresh' = [last_refresh EXCEPT ![email] = Some(new_refresh_token)]
                    /\ refreshes' = Signed(Answered(refreshes, token), new_refresh_token)
                    /\ aret' = ARet("refresh_token", check.email, None, Some(token), 201, "",
                                    [access_token |-> Some(access_token),
                                     refresh_token |-> Some(new_refresh_token)])
           ELSE /\ users' = AfterRefusal(users, check)
                /\ aret' = ARet("refresh_token", check.email, None, Some(token),
                                check.status, check.detail, NoTokens)
                /\ UNCHANGED <<issued, last_refresh, refreshes>>
        /\ UNCHANGED <<utc, ticks, lapsed, redeemed>>
        /\ UNCHANGED <<contactVars, rateVars, regVars, rf_pc, rf_local>>

\* the email of the user whose refresh tokens the concurrent requests carry
SharedEmails == {"a@x"}

NoRefresh == [token |-> None, t |-> 0, user |-> None]

InitRefresh ==
    /\ rf_pc = [h \in Handlers |-> "idle"]
    /\ rf_local = [h \in Handlers |-> NoRefresh]
    /\ refreshes = [tok \in {} |-> 0]

\* the user a request's database session holds: the row as get_user_by_email
\* loaded it, whatever other sessions have committed since
Loaded(token, user) ==
    [e \in Emails |-> IF token.sub = Some(e) THEN user ELSE None]

\* user.refresh_token = token; db.commit() in a session that loaded the row
\* earlier: the UPDATE sets the column in the table as it is now, and is not
\* sent when the value is the one the session loaded
SessionUpdate(db, user, email, token) ==
    IF user[1].refresh_token = token THEN db ELSE update_token(db, email, token)

\* GET /refresh_token, first half: decode_refresh_token(token) and
\* get_user_by_email(email, db)
refresh_token_read(h, token) ==
    /\ rf_pc[h] = "idle"
    /\ rf_pc' = [rf_pc EXCEPT ![h] = "read"]
    /\ rf_local' = [rf_local EXCEPT ![h] =
          [token |-> Some(token), t |-> utc,
           user |-> IF decode_refresh_token(token, utc).status = 200
                    THEN get_user_by_email(users, token.sub[1])
                    ELSE None]]
    /\ UNCHANGED <<authVars, refreshes>>
    /\ UNCHANGED <<contactVars, rateVars, regVars>>

\* GET /refresh_token, second half: the comparison with the refresh_token of
\* the user the session loaded, then update_token and the response
refresh_token_write(h) ==
    /\ rf_pc[h] = "read"
    /\ LET token == rf_local[h].token[1]
           user == rf_local[h].user
           check == RefreshCheck(token, rf_local[h].t, Loaded(token, user))
       IN  IF check.status = 201
           THEN LET email == check.email[1]
                    access_token == create_access_token(email, utc)
                    new_refresh_token == create_refresh_token(email, utc)
                IN  /\ users' = SessionUpdate(users, user, email, Some(new_refresh_token))
                    /\ issued' = issued \cup {access_token, new_refresh_token}
                    /\ last_refresh' = [last_refresh EXCEPT ![email] = Some(new_refresh_token)]
                    /\ refreshes' = Signed(Answered(refreshes, token), new_refresh_token)
                    /\ aret' = ARet("refresh_token", check.email, None, Some(token), 201, "",
                                    [access_token |-> Some(access_token),
                                     refresh_token |-> Some(new_refresh_token)])
           ELSE /\ users' = IF check.detail = "Invalid refresh token"
                            THEN SessionUpdate(users, user, check.email[1], None)
                            ELSE users
                /\ aret' = ARet("refresh_token", check.email, None, Some(token),
                                check.status, check.detail, NoTokens)
                /\ UNCHANGED <<issued, last_refresh, refreshes>>
    /\ rf_pc' = [rf_pc EXCEPT ![h] = "idle"]
    /\ rf_local' = [rf_local EXCEPT ![h] = NoRefresh]
    /\ UNCHANGED <<utc, ticks, lapsed, redeemed>>
    /\ UNCHANGED <<contactVars, rateVars, regVars>>

\* GET /confirmed_email/{token}
confirmed_email(token) ==
    LET decoded == get_email_from_token(token, utc)
        user == IF decoded.email = None THEN None
                ELSE get_user_by_email(users, decoded.email[1])
    IN  /\ IF decoded.status # 200
           THEN /\ aret' = ARet("confirmed_email", None, None, Some(token),
                                decoded.status, decoded.detail, NoTokens)
                /\ UNCHANGED <<users, redeemed>>
           ELSE IF user = None
           THEN /\ aret' = ARet("confirmed_email", decoded.email, None, Some(token),
                                400, "Verification error", NoTokens)
                /\ UNCHANGED <<users, redeemed>>
           ELSE IF user[1].confirmed
           THEN /\ aret' = ARet("confirmed_email", decoded.email, None, Some(token),
                                200, "Your email is already confirmed", NoTokens)
                /\ UNCHANGED <<users, redeemed>>
           ELSE /\ users' = set_confirmed(users, decoded.email[1])
                /\ redeemed' = redeemed \cup {decoded.email[1]}
                /\ aret' = ARet("confirmed_email", decoded.email, None, Some(token),
                                200, "Email confirmed", NoTokens)
        /\ UNCHANGED <<utc, ticks, issued, lapsed, last_refresh>>
        /\ UNCHANGED <<contactVars, rateVars, regVars, refVars>>

\* Depends(auth_services.get_current_user) of a protected endpoint
get_current_user(token) ==
    LET got == get_current_user_of(token, utc, users)
    IN  /\ aret' = ARet("get_current_user", got.email, None, Some(token),
                        got.status, got.detail, NoTokens)
        /\ UNCHANGED <<users, utc, ticks, issued, lapsed, redeemed, last_refresh>>
        /\ UNCHANGED <<contactVars, rateVars, regVars, refVars>>

\* time passes; all expired tokens are refused alike, so of the tokens that
\* expire one is kept for clients to send
ClockTick ==
    /\ ticks < MaxTicks
    /\ \E step \in TickSteps :
          LET t == utc + step
              dead == { tok \in issued : tok.exp < t }
          IN  /\ utc' = t
              /\ issued' = issued \ dead
              /\ lapsed' = IF dead = {} THEN lapsed ELSE Some(CHOOSE tok \in dead : TRUE)
    /\ ticks' = ticks + 1
    /\ UNCHANGED <<users, aret, redeemed, last_refresh>>
    /\ UNCHANGED <<contactVars, rateVars, regVars, refVars>>

NextAuth ==
    \/ \E e \in Emails, pw \in RegisterPasswords : register(e, pw)
    \/ \E e \in Emails, pw \in Passwords : login(e, pw)
    \/ \E e \in Emails : request_email(e)
    \/ \E tok \in Presentable : refresh_token(tok)
    \/ \E tok \in Presentable : confirmed_email(tok)
    \/ \E tok \in Presentable : get_current_user(tok)
    \/ ClockTick

Init == InitContacts /\ InitRate /\ InitAuth /\ InitRegister /\ InitRefresh

SpecAuth == Init /\ [][NextAuth]_vars

\* register requests handled at the same time, each in a database session of its
\* own, next to the requests that confirm an email
NextRegister ==
    \/ \E h \in Handlers, e \in Emails, pw \in RegisterPasswords : register_read(h, e, pw)
    \/ \E h \in Handlers : register_write(h)
    \/ \E e \in Emails : request_email(e)
    \/ \E tok \in Presentable : confirmed_email(tok)

SpecRegister == Init /\ [][NextRegister]_vars

\* refresh_token requests handled at the same time, each in a database session
\* of its own, next to the requests that lead to a refresh token
NextRefresh ==
    \/ \E e \in SharedEmails, pw \in RegisterPasswords : register(e, pw)
    \/ \E tok \in Presentable : confirmed_email(tok)
    \/ \E e \in SharedEmails, pw \in RegisterPasswords : login(e, pw)
    \/ \E h \in Handlers, tok \in Presentable : refresh_token_read(h, tok)
    \/ \E h \in Handlers : refresh_token_write(h)
    \/ ClockTick

SpecRefresh == Init /\ [][NextRefresh]_vars

NextContacts ==
    \/ \E uid \in UserIds, c \in ContactInputs : create_contact(uid, c)
    \/ \E uid \in UserIds, cid \in ContactIds : get_contact(uid, cid)
    \/ \E uid \in UserIds, skip \in Skips, limit \in Limits : get_contacts(uid, skip, limit)
    \/ \E uid \in UserIds, cid \in ContactIds, c \in ContactInputs : upgrade_contact(uid, cid, c)
    \/ \E uid \in UserIds, cid \in ContactIds : delete_contact(uid, cid)
    \/ \E uid \in UserIds, f \in SearchArgs : search_contacts(uid, f)
    \/ \E uid \in UserIds, today \in Todays : get_upcoming_birthdays(uid, today)

SpecContacts == Init /\ [][NextContacts]_vars


\* requests to limit_rate handled one after the other
NextRate ==
    \/ \E u \in RateIds : limit_rate(u)
    \/ Tick

SpecRate == Init /\ [][NextRate]_vars

\* requests to limit_rate handled at the same time
NextRateConc ==
    \/ \E h \in Handlers, u \in SharedIds : limit_rate_get(h, u)
    \/ \E h \in Handlers : limit_rate_act(h)
    \/ Tick

SpecRateConc == Init /\ [][NextRateConc]_vars

(***************************************************************************)
(* Properties of the contact endpoints.                                    *)
(***************************************************************************)
\* the rows a call handed back to its caller
Returned == (IF ret.one = None THEN {} ELSE {ret.one[1]}) \cup ret.rows

\* every returned row is a contact the caller created
ReturnsOnlyOwn ==
    ret.op \in {"get_contact", "get_contacts", "search_contacts",
                "upgrade_contact", "delete_contact"}
        => \A r \in Returned : created_by[r.id] = ret.user

\* an update or delete leaves every contact of another creator as it was
ForeignUntouched ==
    ret'.op \in {"upgrade_contact", "delete_contact"}
        => \A r \in contacts : created_by[r.id] # ret'.user => r \in contacts'

\* C1: a contact created by user A is never returned by get_contact, get_contacts,
\* search_contacts, upgrade_contact or delete_contact called by another user B, and
\* B's update and delete calls on A's contact id leave that contact unchanged.
C1_OwnershipIsolation == []ReturnsOnlyOwn /\ [][ForeignUntouched]_vars

\* user B named the id of an existing contact of user A in an update or delete,
\* and got nothing back
C1_Witness ==
    /\ ret.op \in {"upgrade_contact", "delete_contact"}
    /\ ret.one = None
    /\ \E r \in contacts : r.id = ret.cid /\ created_by[r.id] # ret.user

\* C2: get_upcoming_birthdays returns only contacts whose owner is the caller, on
\* every day, also when today + 7 days falls in the next month.
C2_BirthdaysOnlyOwn ==
    ret.op = "get_upcoming_birthdays" => \A r \in ret.rows : r.user_id = ret.user

\* the (month, day) pairs of the calendar dates today .. today + 7
WindowDays(today) ==
    { <<PlusDays(today, k).m, PlusDays(today, k).d>> : k \in 0..BirthdayWindow }

\* C9: get_upcoming_birthdays returns exactly the caller's contacts whose birthdate
\* (month, day) is the (month, day) of a date in today .. today + 7, the year
\* ignored.  Stated for the caller's own rows: which of them are in the result.
C9_BirthdaysExact ==
    ret.op = "get_upcoming_birthdays"
        => { r \in ret.rows : r.user_id = ret.user }
             = { r \in contacts : /\ r.user_id = ret.user
                                  /\ <<r.birthdate.m, r.birthdate.d>> \in WindowDays(ret.today) }

\* s contains f as a substring, letters compared without regard to case
ContainsCI(s, f) ==
    \E i \in 0..(Len(s) - Len(f)) :
        \A j \in 1..Len(f) : Lower(s[i + j]) = Lower(f[j])

\* an absent filter imposes no constraint; a given one must be contained
Satisfies(column, filter) == filter = None \/ ContainsCI(column, filter[1])

\* C10: search_contacts returns exactly the caller's contacts that satisfy every
\* provided filter, each a case-insensitive substring match on its field; with no
\* filter it returns all of the caller's contacts.
C10_SearchExact ==
    ret.op = "search_contacts"
        => ret.rows = { r \in contacts : /\ r.user_id = ret.user
                                         /\ Satisfies(r.first_name, ret.filt[1])
                                         /\ Satisfies(r.second_name, ret.filt[2])
                                         /\ Satisfies(r.email, ret.filt[3]) }

\* C11: create_contact followed by get_contact of the same owner with the returned
\* id yields a contact whose first_name, second_name, email, phone, birthdate and
\* additional_data equal the input, and whose id is the generated id.
C11_RoundTrip ==
    [][ (/\ ret.op = "create_contact"
         /\ ret'.op = "get_contact"
         /\ ret'.user = ret.user
         /\ ret'.cid = ret.one[1].id)
        => /\ ret'.one # None
           /\ Fields(ret'.one[1]) = ret.body[1]
           /\ ret'.one[1].id = ret.one[1].id
           /\ ret'.one[1].id \in ContactIds ]_vars

\* the owner read back the contact created last, one with additional_data
C11_Witness ==
    /\ ret.op = "get_contact"
    /\ ret.one # None
    /\ ret.one[1].id = next_id - 1
    /\ ret.one[1].additional_data # None
    /\ created_by[ret.cid] = ret.user

\* C12: upgrade_contact(owner, id, fields) on an existing contact of the owner
\* replaces all six mutable fields by the given values and returns the updated
\* contact with id and owner unchanged; when the owner has no contact of that id
\* it returns None and leaves the table unchanged.
C12_UpgradeContact ==
    [][ ret'.op = "upgrade_contact"
        => LET owned == { r \in contacts : r.id = ret'.cid /\ r.user_id = ret'.user }
           IN  IF owned # {}
               THEN \E r \in owned :
                       /\ ret'.one # None
                       /\ Fields(ret'.one[1]) = ret'.body[1]
                       /\ ret'.one[1].id = r.id
                       /\ ret'.one[1].user_id = r.user_id
                       /\ contacts' = (contacts \ {r}) \cup {ret'.one[1]}
               ELSE ret'.one = None /\ contacts' = contacts ]_vars

\* an owner replaced the fields of one of two stored contacts, additional_data
\* included
C12_Witness ==
    /\ ret.op = "upgrade_contact"
    /\ ret.one # None
    /\ ret.one[1] \in contacts
    /\ ret.body[1].additional_data # None
    /\ Cardinality(contacts) = 2

\* C13: delete_contact(owner, id) on an existing contact of the owner removes it,
\* returns its prior value and leaves every other contact unchanged, and a
\* get_contact(owner, id) that follows returns None; when the owner has no contact
\* of that id it returns None and leaves the table unchanged.
C13_DeleteContact ==
    [][ /\ ret'.op = "delete_contact"
           => LET owned == { r \in contacts : r.id = ret'.cid /\ r.user_id = ret'.user }
              IN  IF owned # {}
                  THEN \E r \in owned : /\ ret'.one = Some(r)
                                        /\ contacts' = contacts \ {r}
                  ELSE ret'.one = None /\ contacts' = contacts
        /\ (/\ ret.op = "delete_contact"
            /\ ret'.op = "get_contact"
            /\ ret'.user = ret.user
            /\ ret'.cid = ret.cid)
           => ret'.one = None ]_vars

\* an owner deleted one of its contacts and got it back, another contact remains
C13_Witness ==
    /\ ret.op = "delete_contact"
    /\ ret.one # None
    /\ ret.one[1] \notin contacts
    /\ created_by[ret.cid] = ret.user
    /\ contacts # {}

\* C16: every contact has exactly one owner, the user whose create_contact call
\* made it, and no call changes the owner of an existing contact.
C16_OwnerImmutable ==
    /\ [](\A r \in contacts :
            /\ r.id \in DOMAIN created_by
            /\ r.user_id = created_by[r.id]
            /\ \A q \in contacts : q.id = r.id => q = r)
    /\ [][\A r \in contacts, q \in contacts' :
            q.id = r.id => q.user_id = r.user_id]_vars

\* a contact was updated by its owner while another user's contact is stored
C16_Witness ==
    /\ ret.op = "upgrade_contact"
    /\ ret.one # None
    /\ ret.one[1].user_id = created_by[ret.cid]
    /\ \E r \in contacts : r.user_id # ret.user

\* C17: get_contacts(owner, skip, limit) returns at most limit contacts, all of
\* the owner, the positions skip .. skip+limit-1 of one fixed ordering: with no
\* write in between, a repeated call with the same arguments returns the same
\* sequence, and consecutive pages hold no contact twice.
C17_StablePagination ==
    /\ [](ret.op = "get_contacts"
            => /\ Len(ret.seq) <= ret.limit
               /\ \A i \in 1..Len(ret.seq) : ret.seq[i].user_id = ret.user)
    /\ [][ (/\ ret.op = "get_contacts" /\ ret'.op = "get_contacts"
             /\ ret'.user = ret.user /\ ret'.limit = ret.limit
             /\ contacts' = contacts)
            => /\ ret'.skip = ret.skip => ret'.seq = ret.seq
               /\ ret'.skip = ret.skip + ret.limit
                    => Range(ret.seq) \cap Range(ret'.seq) = {} ]_vars


(***************************************************************************)
(* Properties of the rate limiter.                                         *)
(***************************************************************************)
\* C3: handled one after the other, the first 5 calls of an identity within 60
\* seconds of its first call are allowed, every further call within those 60
\* seconds is rejected with 429, and a call made once the 60 seconds have passed
\* is allowed again (it is the first call of a new window).
C3_SequentialLimit ==
    \A u \in RateIds :
        rl_ret.user_id = u => (rl_ret.allowed <=> win_calls[u] <= RATE_LIMIT)

\* an identity that was rejected is allowed again, as the first call of a new window
C3_Witness ==
    \E u \in RateIds :
        /\ rejected[u]
        /\ rl_ret = [user_id |-> u, allowed |-> TRUE]
        /\ win_calls[u] = 1
        /\ win_start[u] = Some(now)

\* C4: under every interleaving of concurrent limit_rate calls for one identity, at
\* most 5 calls are allowed between the creation of its counter and its expiry.
C4_RateBound == \A u \in RateIds : life_allowed[u] <= RATE_LIMIT

\* C18: the expiry of a rate-limit counter is set when the counter is created,
\* to TIME_FRAME seconds after that request, and no later limit_rate call
\* changes it.
C18_WindowAnchored ==
    [][\A u \in RateIds :
         redis'[u] # None
           => /\ redis[u] = None => redis'[u][1].exp = Some(now + TIME_FRAME)
              /\ redis[u] # None => redis'[u][1].exp = redis[u][1].exp ]_vars

\* C21: under every interleaving of concurrent limit_rate calls with counter
\* expiry, expiry between a call's GET and its INCR included, every counter in
\* the store has an expiry time (so a rejected identity is allowed again once its
\* counter has expired).
C21_CountersExpire ==
    \A u \in RateIds : redis[u] # None => redis[u][1].exp # None

(***************************************************************************)
(* Properties of registration, login and tokens.                           *)
(***************************************************************************)
\* the access and refresh tokens the server has signed
SessionTokens ==
    { tok \in issued \cup (IF lapsed = None THEN {} ELSE {lapsed[1]}) :
        tok.scope \in {Some("access_token"), Some("refresh_token")} }

\* C5: login of a registered user with the right email and password fails with 401
\* while the user's confirmed flag is false, and succeeds, issuing an access and a
\* refresh token, only after confirmed_email has set the flag; so no access or
\* refresh token is ever issued for an unconfirmed user.
C5_LoginNeedsConfirmation ==
    /\ aret.op = "login" /\ get_user_by_email(users, aret.email[1]) # None
         /\ ~get_user_by_email(users, aret.email[1])[1].confirmed
         => aret.status = 401 /\ aret.out = NoTokens
    /\ aret.op = "login" /\ aret.status = 201
         => /\ aret.email[1] \in redeemed
            /\ get_user_by_email(users, aret.email[1])[1].confirmed
            /\ aret.out.access_token # None /\ aret.out.refresh_token # None
    /\ \A tok \in SessionTokens :
         /\ get_user_by_email(users, tok.sub[1]) # None
         /\ get_user_by_email(users, tok.sub[1])[1].confirmed
         /\ tok.sub[1] \in redeemed

\* a registered, unconfirmed user sent the right password and was refused
C5_Witness ==
    /\ aret.op = "login"
    /\ aret.status = 401
    /\ aret.detail = "Email not confirmed"
    /\ get_user_by_email(users, aret.email[1]) # None
    /\ verify_password(aret.password[1], get_user_by_email(users, aret.email[1])[1].password)

\* C6: get_current_user returns a user only for a validly signed, unexpired token
\* with scope "access_token" whose subject is the email of an existing user; for
\* every other token it fails with 401 "Could not validate credentials".
C6_CurrentUser ==
    aret.op = "get_current_user"
        => LET tok == aret.token[1]
               good == /\ JwtDecodes(tok, utc)
                       /\ tok.scope = Some("access_token")
                       /\ tok.sub # None
                       /\ get_user_by_email(users, tok.sub[1]) # None
           IN  /\ good => aret.status = 200 /\ aret.email = tok.sub
               /\ ~good => /\ aret.status = 401
                           /\ aret.detail = "Could not validate credentials"

\* C7: decode_refresh_token of a validly signed, unexpired token made by
\* create_access_token fails with 401 "Invalid scope for token", never with
\* "Could not validate credentials".
C7_AccessTokenScopeError ==
    /\ \A tok \in issued :
         tok.scope = Some("access_token") /\ JwtDecodes(tok, utc)
           => decode_refresh_token(tok, utc) = Raises(401, "Invalid scope for token")
    /\ aret.op = "refresh_token" /\ aret.token[1].scope = Some("access_token")
         /\ JwtDecodes(aret.token[1], utc)
         => aret.status = 401 /\ aret.detail = "Invalid scope for token"

\* an access token that login issued was sent to /refresh_token while unexpired
C7_Witness ==
    /\ aret.op = "refresh_token"
    /\ aret.token[1] \in issued
    /\ aret.token[1] = create_access_token(aret.token[1].sub[1], utc)
    /\ aret.detail = "Invalid scope for token"

\* C8: after any logins and refreshes of a user, /refresh_token accepts at most one
\* refresh token of that user, the one issued by the last successful login or
\* refresh; every refresh token issued before is refused with 401.
C8_SingleRefreshToken ==
    /\ \A tok \in Presentable :
         /\ RefreshCheck(tok, utc, users).status = 201
              => last_refresh[tok.sub[1]] = Some(tok)
         /\ tok.scope = Some("refresh_token") /\ last_refresh[tok.sub[1]] # Some(tok)
              => RefreshCheck(tok, utc, users).status = 401
    /\ aret.op = "refresh_token" /\ aret.status = 201
         => last_refresh[aret.email[1]] = aret.out.refresh_token

\* a user holds two unexpired refresh tokens; the older one was sent and refused
C8_Witness ==
    /\ aret.op = "refresh_token"
    /\ aret.status = 401
    /\ aret.detail = "Invalid refresh token"
    /\ aret.token[1] \in issued
    /\ JwtDecodes(aret.token[1], utc)
    /\ \E tok \in issued : /\ tok.scope = Some("refresh_token")
                           /\ tok.sub = aret.token[1].sub
                           /\ tok.exp > aret.token[1].exp

(***************************************************************************)
(* Properties of registration and email confirmation.                      *)
(***************************************************************************)
\* C14: a register call whose email belongs to a user when the call creates its
\* user fails with 409 "Email already registered" and leaves table "users"
\* unchanged, also when register calls for one email are interleaved; so no email
\* is ever inserted twice.
C14_DuplicateRegistration ==
    /\ [][\A h \in Handlers :
            (/\ rg_pc[h] = "read" /\ rg_pc'[h] = "idle"
             /\ get_user_by_email(users, rg_local[h].email[1]) # None)
            => /\ aret'.op = "register"
               /\ aret'.email = rg_local[h].email
               /\ aret'.status = 409
               /\ aret'.detail = "Email already registered"
               /\ users' = users]_vars
    /\ [](\A e \in Emails : inserted[e] <= 1)

\* C15: a user is created by register with confirmed = FALSE; the flag becomes
\* TRUE only in a confirmed_email call whose token is validly signed, unexpired
\* and has the user's email as subject; a TRUE flag never becomes FALSE; and
\* confirmed_email with a valid token of an already confirmed user changes
\* nothing and answers "Your email is already confirmed".
C15_ConfirmedLifecycle ==
    [][\A e \in Emails :
         LET old == get_user_by_email(users, e)
             new == get_user_by_email(users', e)
         IN  /\ old # None => new # None
             /\ (old = None /\ new # None)
                  => /\ aret'.op = "register" /\ aret'.email = Some(e)
                     /\ ~new[1].confirmed
             /\ (old # None /\ old[1].confirmed) => new[1].confirmed
             /\ (old # None /\ ~old[1].confirmed /\ new[1].confirmed)
                  => /\ aret'.op = "confirmed_email"
                     /\ JwtDecodes(aret'.token[1], utc)
                     /\ aret'.token[1].sub = Some(e)
                     /\ aret'.detail = "Email confirmed"
             /\ (/\ aret'.op = "confirmed_email" /\ aret' # aret
                 /\ JwtDecodes(aret'.token[1], utc)
                 /\ aret'.token[1].sub = Some(e)
                 /\ old # None /\ old[1].confirmed)
                  => /\ users' = users
                     /\ aret'.status = 200
                     /\ aret'.detail = "Your email is already confirmed" ]_vars

\* a token of a user that an earlier confirmed_email call confirmed was redeemed
\* again
C15_Witness ==
    /\ aret.op = "confirmed_email"
    /\ aret.detail = "Your email is already confirmed"
    /\ aret.email[1] \in redeemed
    /\ get_user_by_email(users, aret.email[1])[1].confirmed
    /\ \E e \in Emails : /\ get_user_by_email(users, e) # None
                          /\ ~get_user_by_email(users, e)[1].confirmed

\* C19: decode_refresh_token of a validly signed, unexpired token without scope
\* (one made by create_email_token) ends in 401 "Invalid scope for token" or 401
\* "Could not validate credentials", nothing else; /refresh_token answers such a
\* token with one of the two and issues no tokens.
C19_EmailTokenRefused ==
    LET documented == { Raises(401, "Invalid scope for token"),
                        Raises(401, "Could not validate credentials") }
    IN  /\ \A tok \in Presentable :
             tok.scope = None /\ JwtDecodes(tok, utc)
               => decode_refresh_token(tok, utc) \in documented
        /\ (/\ aret.op = "refresh_token" /\ aret.token[1].scope = None
            /\ JwtDecodes(aret.token[1], utc))
             => /\ Raises(aret.status, aret.detail) \in documented
                /\ aret.out = NoTokens

\* C20: /refresh_token given a validly signed, unexpired refresh token of an
\* existing user that is not the user's stored token answers 401 "Invalid refresh
\* token", issues nothing and stores None; while None is stored every token of
\* that user is refused, and only a successful login stores a token again.
C20_RefreshMismatch ==
    /\ [][ (/\ aret'.op = "refresh_token" /\ aret' # aret
             /\ JwtDecodes(aret'.token[1], utc)
             /\ aret'.token[1].scope = Some("refresh_token")
             /\ aret'.token[1].sub # None
             /\ get_user_by_email(users, aret'.token[1].sub[1]) # None
             /\ get_user_by_email(users, aret'.token[1].sub[1])[1].refresh_token
                   # aret'.token)
            => /\ aret'.status = 401
               /\ aret'.detail = "Invalid refresh token"
               /\ aret'.out = NoTokens
               /\ issued' = issued
               /\ \A e \in Emails :
                     IF Some(e) = aret'.token[1].sub
                     THEN users'[e] = Some([users[e][1] EXCEPT !.refresh_token = None])
                     ELSE users'[e] = users[e] ]_vars
    /\ [](\A e \in Emails, tok \in Presentable :
            (/\ get_user_by_email(users, e) # None
             /\ get_user_by_email(users, e)[1].refresh_token = None
             /\ tok.sub = Some(e))
            => RefreshCheck(tok, utc, users).status # 201)
    /\ [][\A e \in Emails :
            (/\ get_user_by_email(users, e) # None
             /\ get_user_by_email(users, e)[1].refresh_token = None
             /\ get_user_by_email(users', e)[1].refresh_token # None)
            => /\ aret'.op = "login" /\ aret'.status = 201
               /\ aret'.email = Some(e) ]_vars

\* an older refresh token was refused as not the stored one; now nothing is
\* stored and the refresh token issued last, still unexpired, is refused too
C20_Witness ==
    /\ aret.op = "refresh_token"
    /\ aret.detail = "Invalid refresh token"
    /\ get_user_by_email(users, aret.email[1])[1].refresh_token = None
    /\ last_refresh[aret.email[1]] # None
    /\ last_refresh[aret.email[1]] # aret.token
    /\ last_refresh[aret.email[1]][1] \in issued
    /\ RefreshCheck(last_refresh[aret.email[1]][1], utc, users).status = 401

\* C22: each refresh token that was issued leads to at most one successful
\* refresh_token response, also when two requests that carry it are handled at
\* the same time in database sessions of their own.
C22_OneTimeRedemption ==
    \A tok \in DOMAIN refreshes : refreshes[tok] <= 1

\* C23: request_email returns a message for every address and never fails: for a
\* confirmed user "Your email is already confirmed" and no email; for an
\* unconfirmed user one confirmation email and "Check your email for
\* confirmation."; for an address of no user no email and "Check your email for
\* confirmation."; table "users" is unchanged in all three cases.
C23_RequestEmail ==
    /\ [](aret.op = "request_email"
            => LET user == get_user_by_email(users, aret.email[1])
               IN  /\ aret.status = 200
                   /\ aret.detail = IF user # None /\ user[1].confirmed
                                    THEN "Your email is already confirmed"
                                    ELSE "Check your email for confirmation.")
    /\ [][ (aret'.op = "request_email" /\ aret' # aret)
            => LET user == get_user_by_email(users, aret'.email[1])
               IN  /\ users' = users
                   /\ issued' = IF user # None /\ ~user[1].confirmed
                                THEN issued \cup {create_email_token(aret'.email[1], utc)}
                                ELSE issued ]_vars

====
